---- MODULE Spec2Model ----
(***************************************************************************)
(* A model of the statement-ingestion program of transactions-dashboard:   *)
(* src/bankfiles.py (the current script) and src/amex9.py (its older       *)
(* variant).  The model covers the rule table and the classifier           *)
(* (load_vendor_rules, determine_vendor_cat_tag), the two ingestion flows  *)
(* (process_excel_file, process_csv_file) split at their console prompts,  *)
(* and the ledger file rewritten by update_master_file.                    *)
(*                                                                         *)
(* Text is a sequence of one-character strings.  A missing value (pandas   *)
(* NaN) is the one-element sequence NaN, which no text equals.             *)
(***************************************************************************)
EXTENDS Integers, Sequences, FiniteSets, TLC

\* ------------------------------------------------------------------ bounds
\* Longest description handed to the classifier in SpecClassify.
MaxDescLen == 3
\* Most rules in a rule table.
MaxRules == 2

\* Most data rows of an input file in Spec, and in SpecFlip.
MaxBatch == 2
MaxRows == 3
\* Most data lines the ledger grows to.
MaxLedger == 3

\* ------------------------------------------------------------------- text
NaN == <<"NaN">>
Empty == <<>>

\* str.lower() on one character.
LowerChar(c) ==
  CASE c = "A" -> "a"
    [] c = "B" -> "b"
    [] c = "N" -> "n"
    [] c = "Y" -> "y"
    [] c \in {"Chase", "CHASE"} -> "chase"
    [] OTHER -> c

\* str.lower(): desc.lower() and Series.str.lower() on a text cell.
Lower(s) == [i \in 1..Len(s) |-> LowerChar(s[i])]

IsSpace(c) == c = " "

RECURSIVE LStrip(_)
LStrip(s) == IF s # <<>> /\ IsSpace(Head(s)) THEN LStrip(Tail(s)) ELSE s

RECURSIVE RStrip(_)
RStrip(s) ==
  IF s # <<>> /\ IsSpace(s[Len(s)]) THEN RStrip(SubSeq(s, 1, Len(s) - 1)) ELSE s

\* str.strip()
Strip(s) == RStrip(LStrip(s))

\* str.split(sep): the pieces between the separators, empty pieces kept.
RECURSIVE SplitFrom(_, _, _)
SplitFrom(s, sep, cur) ==
  IF s = <<>> THEN <<cur>>
  ELSE IF Head(s) = sep THEN <<cur>> \o SplitFrom(Tail(s), sep, <<>>)
  ELSE SplitFrom(Tail(s), sep, Append(cur, Head(s)))

Split(s, sep) == SplitFrom(s, sep, <<>>)

\* Python's `k in d` on strings: k occurs in d as a contiguous run.
IsSubstr(k, d) ==
  \E i \in 0..(Len(d) - Len(k)) : SubSeq(d, i + 1, i + Len(k)) = k

\* ------------------------------------------------------------- rule table
\* One line of vendor_rules.csv as text, and the table as loaded.
Rule(k, v, c, t) == [keyword |-> k, vendor |-> v, category |-> c, tag |-> t]

\* pandas.read_csv on one object-column cell: the empty field is missing.
ReadCell(text) == IF text = Empty THEN NaN ELSE text

\* A load that leaves the keywords as written.
StrLowerKept(cell) == cell

\* Series.str.lower() leaves a missing value missing.
StrLower(cell) == IF cell = NaN THEN NaN ELSE Lower(cell)

\* load_vendor_rules: read the table and lower-case the keyword column.
LoadVendorRules(fileRows) ==
  [i \in 1..Len(fileRows) |->
     Rule(StrLower(ReadCell(fileRows[i].keyword)),
          ReadCell(fileRows[i].vendor),
          ReadCell(fileRows[i].category),
          ReadCell(fileRows[i].tag))]

\* ------------------------------------------------------------- classifier
Unclassified == [raised |-> FALSE, vendor |-> Empty, category |-> Empty, tag |-> Empty]
Raised == [raised |-> TRUE, vendor |-> Empty, category |-> Empty, tag |-> Empty]
Matched(rule) ==
  [raised |-> FALSE, vendor |-> rule.vendor, category |-> rule.category, tag |-> rule.tag]

\* all(kw.strip() in d for kw in keywords), d already lower-cased.
AllKeywordsIn(keyword, d) ==
  LET keywords == Split(keyword, "&")
  IN \A j \in 1..Len(keywords) : IsSubstr(Strip(keywords[j]), d)

\* A loop that gives up at the first rule that does not match.
MatchOneRule(d, rules, i) ==
  IF i > Len(rules) THEN Unclassified
  ELSE IF rules[i].keyword = NaN THEN Raised
  ELSE IF AllKeywordsIn(rules[i].keyword, d) THEN Matched(rules[i])
  ELSE Unclassified

\* The loop of determine_vendor_cat_tag over the rows of the table, from row
\* i on.  A missing keyword is a float, and .split on it raises.
RECURSIVE MatchFrom(_, _, _)
MatchFrom(d, rules, i) ==
  IF i > Len(rules) THEN Unclassified
  ELSE IF rules[i].keyword = NaN THEN Raised
  ELSE IF AllKeywordsIn(rules[i].keyword, d) THEN Matched(rules[i])
  ELSE MatchFrom(d, rules, i + 1)

\* determine_vendor_cat_tag once the table is in memory.
Classify(desc, rules) == MatchFrom(Lower(desc), rules, 1)

\* ------------------------------------------------------------------ cells
\* A cell of a DataFrame in memory: a number, a string or a missing value.
Num(n) == [k |-> "num", n |-> n, s |-> <<>>]
Str(s) == [k |-> "str", n |-> 0, s |-> s]
Missing == [k |-> "nan", n |-> 0, s |-> <<>>]

Digits == <<"0", "1", "2", "3", "4", "5", "6", "7", "8", "9">>
IntRange == -9..9

\* str(n) / to_csv of an integer.
IntText(n) == IF n < 0 THEN <<"-", Digits[1 - n]>> ELSE <<Digits[n + 1]>>

IsNumText(t) == \E n \in IntRange : IntText(n) = t
TextInt(t) == CHOOSE n \in IntRange : IntText(n) = t

\* The fields read_csv takes for a missing value (its default na_values),
\* as far as the model's alphabet can spell them.
NaTexts == {Empty, <<"n", "a", "n">>}

\* read_csv infers one type per column: numbers if every field is a number
\* or missing, strings otherwise (number-looking fields stay strings then).
ReadField(t, numeric) ==
  IF t \in NaTexts THEN Missing
  ELSE IF numeric THEN Num(TextInt(t)) ELSE Str(t)

IsNumericColumn(texts) ==
  \A i \in 1..Len(texts) : texts[i] \in NaTexts \/ IsNumText(texts[i])

\* astype(str) on one cell.
AsStr(cell) ==
  CASE cell.k = "num" -> IntText(cell.n)
    [] cell.k = "str" -> cell.s
    [] OTHER -> <<"n", "a", "n">>

\* to_csv on one cell: a missing value is written as the empty field.
CellText(cell) ==
  CASE cell.k = "num" -> IntText(cell.n)
    [] cell.k = "str" -> cell.s
    [] OTHER -> Empty

\* to_csv on one cell of an object column holding text or NaN.
ObjText(x) == IF x = NaN THEN Empty ELSE x

\* ------------------------------------------------------------- DataFrames
\* A DataFrame is its column names, in order, and its rows of cells.
Frame(cols, rows) == [cols |-> cols, rows |-> rows]

\* `c in df.columns`
HasCol(df, c) == \E i \in 1..Len(df.cols) : df.cols[i] = c

ColIdxs(df, c) == {i \in 1..Len(df.cols) : df.cols[i] = c}

\* df[c] is a Series only when exactly one column has that name: with none
\* it raises KeyError, with several it is a DataFrame.
IsSeries(df, c) == Cardinality(ColIdxs(df, c)) = 1

Column(df, c) ==
  LET i == CHOOSE j \in ColIdxs(df, c) : TRUE
  IN [r \in 1..Len(df.rows) |-> df.rows[r][i]]

\* A dict as a set of <<key, value>> pairs; d[k] = v replaces k's pair.
DictPut(d, k, v) == {p \in d : p[1] # k} \cup {<<k, v>>}
DictHas(d, k) == \E p \in d : p[1] = k
DictGet(d, k) == (CHOOSE p \in d : p[1] = k)[2]

\* df.rename(columns=mapping)
Rename(df, mapping) ==
  Frame([i \in 1..Len(df.cols) |->
           IF DictHas(mapping, df.cols[i]) THEN DictGet(mapping, df.cols[i])
           ELSE df.cols[i]],
        df.rows)

\* df[c] = values (one cell per row): replaces the column named c, or adds
\* it at the end.
SetCol(df, c, values) ==
  IF HasCol(df, c)
  THEN Frame(df.cols,
             [r \in 1..Len(df.rows) |->
                [i \in 1..Len(df.cols) |->
                   IF df.cols[i] = c THEN values[r] ELSE df.rows[r][i]]])
  ELSE Frame(Append(df.cols, c),
             [r \in 1..Len(df.rows) |-> Append(df.rows[r], values[r])])

\* df[c] = scalar
SetColScalar(df, c, cell) == SetCol(df, c, [r \in 1..Len(df.rows) |-> cell])

\* pandas.read_csv / read_excel of a grid of text fields under a header.
ReadFrame(cols, textRows) ==
  LET numeric(i) == IsNumericColumn([r \in 1..Len(textRows) |-> textRows[r][i]])
  IN Frame(cols,
           [r \in 1..Len(textRows) |->
              [i \in 1..Len(cols) |-> ReadField(textRows[r][i], numeric(i))]])

\* ------------------------------------------------------ column resolution
\* A resolution loop that knows no alternative names.
NoAlternatives(flow, col) == <<>>

\* The alternative names process_csv_file tries for a needed column
\* (alternatives.get(col, [])).  amex9.py has no Debit and Credit entries.
Alternatives(flow, col) ==
  CASE col = "Date" -> <<"Post Date", "Transaction Date", "TRANSACTION DATE", "DATE">>
    [] col = "Amount" -> <<"AMOUNT", "TRANSACTION AMOUNT", "Transaction Amount">>
    [] col = "Description" ->
         <<"DESCRIPTION", "Transaction Description", "Details", "DETAILS">>
    [] col = "Debit" /\ flow = "csv" -> <<"DEBIT", "Debit Amount", "DR">>
    [] col = "Credit" /\ flow = "csv" -> <<"CREDIT", "Credit Amount", "CR">>
    [] OTHER -> <<>>

\* The columns a flow asks for.  bankfiles.process_csv_file needs Amount
\* only when the file already has a column of that name.
NeededColumns(flow, df) ==
  CASE flow = "csv" ->
         IF HasCol(df, "Amount") THEN <<"Date", "Description", "Amount">>
         ELSE <<"Date", "Description">>
    [] flow = "csv9" -> <<"Date", "Amount", "Description">>
    [] OTHER -> <<"Date", "Amount", "Description", "Appears On Your Statement As">>

\* The first alternative that is a column of df: its place, or 0.
FirstAlt(df, alts) ==
  LET hits == {j \in 1..Len(alts) : HasCol(df, alts[j])}
  IN IF hits = {} THEN 0 ELSE CHOOSE j \in hits : \A h \in hits : j <= h

\* The `for col in needed_columns` loop of process_csv_file from place i on,
\* up to the column it has to ask about (at <= Len(needed)) or to its end.
RECURSIVE ResolveFrom(_, _, _, _, _)
ResolveFrom(flow, df, needed, i, mapping) ==
  IF i > Len(needed) THEN [at |-> i, mapping |-> mapping]
  ELSE IF HasCol(df, needed[i]) THEN ResolveFrom(flow, df, needed, i + 1, mapping)
  ELSE LET alts == Alternatives(flow, needed[i])
           j == FirstAlt(df, alts)
       IN IF j # 0
          THEN ResolveFrom(flow, df, needed, i + 1, DictPut(mapping, alts[j], needed[i]))
          ELSE [at |-> i, mapping |-> mapping]

\* An answer typed at a column prompt: an integer, or text int() rejects.
Choice(isInt, n) == [isInt |-> isInt, n |-> n]
Choices(df) ==
  {Choice(TRUE, n) : n \in 0..(Len(df.cols) + 1)} \cup {Choice(FALSE, 0)}

\* `idx = int(choice) - 1; if 0 <= idx < len(df.columns)`
PicksColumn(df, choice) ==
  choice.isInt /\ 0 <= choice.n - 1 /\ choice.n - 1 < Len(df.cols)

\* `for col in missing_cols: df[col] = ""`
RECURSIVE AddEmptyColumns(_, _)
AddEmptyColumns(df, missing) ==
  IF missing = <<>> THEN df
  ELSE AddEmptyColumns(SetColScalar(df, Head(missing), Str(Empty)), Tail(missing))

\* `if column_mapping: df.rename(...)` and the empty columns after it.
ApplyMapping(df, mapping, missing) ==
  AddEmptyColumns(IF mapping # {} THEN Rename(df, mapping) ELSE df, missing)

\* --------------------------------------------------------------- amounts
\* fillna(0), then pd.to_numeric(errors='coerce').fillna(0), on one cell.
ToNumeric(cell) ==
  CASE cell.k = "num" -> cell.n
    [] cell.k = "str" /\ IsNumText(cell.s) -> TextInt(cell.s)
    [] OTHER -> 0

\* A normalizer that does not know the debit/credit pair.
DefaultAmount(df, hasAmount) ==
  IF hasAmount \/ HasCol(df, "Amount") THEN df ELSE SetColScalar(df, "Amount", Num(0))

\* The Debit/Credit block of bankfiles.process_csv_file.
NormalizeAmount(df, hasAmount) ==
  IF hasAmount \/ HasCol(df, "Amount") THEN df
  ELSE IF HasCol(df, "Debit") /\ HasCol(df, "Credit")
  THEN LET debit == Column(df, "Debit")
           credit == Column(df, "Credit")
           d1 == SetCol(df, "Debit", [r \in 1..Len(df.rows) |-> Num(ToNumeric(debit[r]))])
           d2 == SetCol(d1, "Credit", [r \in 1..Len(df.rows) |-> Num(ToNumeric(credit[r]))])
       IN SetCol(d2, "Amount",
                 [r \in 1..Len(df.rows) |->
                    Num(ToNumeric(debit[r]) - ToNumeric(credit[r]))])
  ELSE SetColScalar(df, "Amount", Num(0))

\* `(new_df["Amount"] < 0)` raises TypeError on a string cell.
ComparisonRaises(amounts) == \E r \in 1..Len(amounts) : amounts[r].k = "str"

NegCount(amounts) ==
  Cardinality({r \in 1..Len(amounts) : amounts[r].k = "num" /\ amounts[r].n < 0})
PosCount(amounts) ==
  Cardinality({r \in 1..Len(amounts) : amounts[r].k = "num" /\ amounts[r].n > 0})

\* A test that also offers the flip on a tie.
OffersFlipOnTie(amounts) == NegCount(amounts) >= PosCount(amounts)

\* `if neg_count > pos_count`
OffersFlip(amounts) == NegCount(amounts) > PosCount(amounts)

\* A flip that turns only the negative amounts around.
NegateNegatives(cell) == IF cell.k = "num" /\ cell.n < 0 THEN Num(0 - cell.n) ELSE cell

\* `-new_df["Amount"]` on one cell of a numeric column.
Negate(cell) == IF cell.k = "num" THEN Num(0 - cell.n) ELSE cell

\* A test that takes every answer but "n" for a yes.
IsNotNo(answer) == Lower(Strip(answer)) # <<"n">>

\* A test that takes any answer at all for a yes.
IsAnyAnswer(answer) == TRUE

\* `input(...).strip().lower() == 'y'`
IsYes(answer) == Lower(Strip(answer)) = <<"y">>

\* ----------------------------------------------------------------- dates
\* pd.to_datetime(errors='coerce') followed by strftime('%m/%d/%y') on one
\* cell: the date texts of the model in their two spellings, an integer as
\* nanoseconds after the epoch, anything else NaT and so missing.
FormatDate(cell) ==
  CASE cell.k = "num" -> Str(<<"01/01/70">>)
    [] cell.k = "str" /\ cell.s \in {<<"2024-01-05">>, <<"01/05/24">>} -> Str(<<"01/05/24">>)
    [] cell.k = "str" /\ cell.s \in {<<"2024-01-07">>, <<"01/07/24">>} -> Str(<<"01/07/24">>)
    [] OTHER -> Missing

\* ----------------------------------------------------------- description
CommaSpace == <<",", " ">>

\* next((c for c in df.columns if c in names), None), "" for None.
FirstColumnIn(df, names) ==
  LET hits == {i \in 1..Len(df.cols) : df.cols[i] \in names}
  IN IF hits = {} THEN ""
     ELSE df.cols[CHOOSE i \in hits : \A h \in hits : i <= h]

\* fillna("") then astype(str) then .str.strip() on one cell.
FilledText(cell) == IF cell.k = "nan" THEN Empty ELSE Strip(AsStr(cell))

\* The description of row r in process_csv_file: Description, then the
\* category and the type column when the file has them.
CsvDescription(df, r) ==
  LET category_col == FirstColumnIn(df, {"Category", "CATEGORY"})
      type_col == FirstColumnIn(df, {"Type", "TYPE", "Transaction Type"})
  IN Strip(AsStr(Column(df, "Description")[r]))
       \o (IF category_col = "" THEN <<>>
           ELSE CommaSpace \o FilledText(Column(df, category_col)[r]))
       \o (IF type_col = "" THEN <<>>
           ELSE CommaSpace \o FilledText(Column(df, type_col)[r]))

\* The description of row r in process_excel_file.
ExcelDescription(df, r) ==
  AsStr(Column(df, "Description")[r]) \o CommaSpace
    \o AsStr(Column(df, "Appears On Your Statement As")[r])

\* ------------------------------------------------------------- the batch
\* new_df: the columns of a batch and of the ledger, in this order.  The
\* statement and payment-method columns are constant over a batch and are
\* left out.
BatchCols == <<"Date", "Amount", "description", "vendor", "category", "tag">>
DateAt == 1
AmountAt == 2
DescAt == 3
VendorAt == 4
CategoryAt == 5
TagAt == 6

\* Whether the flow's column selection raises: a needed column is missing
\* (KeyError) or there twice (a DataFrame where a Series is needed).
SelectionRaises(flow, df) ==
  \E c \in {"Date", "Amount", "Description"}
           \cup (IF flow = "excel" THEN {"Appears On Your Statement As"} ELSE {}) :
     ~IsSeries(df, c)

\* The rows of new_df before classification: date, amount, description.
\* amex9.process_csv_file leaves the date column as read.
BuildRows(flow, df) ==
  [r \in 1..Len(df.rows) |->
     << IF flow = "csv9" THEN Column(df, "Date")[r] ELSE FormatDate(Column(df, "Date")[r]),
        Column(df, "Amount")[r],
        Str(IF flow = "excel" THEN ExcelDescription(df, r) ELSE CsvDescription(df, r)) >>]

\* A value of the rule table as a cell of new_df.
ObjCell(x) == IF x = NaN THEN Missing ELSE Str(x)

\* A classifier result that keeps the category of the rule only.
CategoryOnly(row, m) ==
  row \o <<Str(Empty), ObjCell(m.category), Str(Empty)>>

\* new_df[["vendor","category","tag"]] = ... for one row.
WithClassification(row, m) ==
  row \o <<ObjCell(m.vendor), ObjCell(m.category), ObjCell(m.tag)>>

\* ------------------------------------------------------------ rule state
\* The global vendor_rules_df: None until the first classification.
NotLoaded == [loaded |-> FALSE, raised |-> FALSE, rows |-> <<>>]

\* A first use that lets FileNotFoundError escape.
MissingRulesRaise == [loaded |-> FALSE, raised |-> TRUE, rows |-> <<>>]

\* `except FileNotFoundError`: an empty table takes the place of the file.
MissingRulesEmpty == [loaded |-> TRUE, raised |-> FALSE, rows |-> <<>>]

\* A keyword column with lines and nothing but empty fields is read as a
\* column of floats, on which the .str accessor of load_vendor_rules raises
\* AttributeError, which the except clause does not catch.
NoTextKeyword(fileRows) ==
  fileRows # <<>> /\ \A i \in 1..Len(fileRows) : fileRows[i].keyword = Empty

\* load_vendor_rules inside its try.  A file pd.read_csv cannot read raises
\* before the global is assigned.  The global is assigned before the
\* keywords are lower-cased, so a table whose .str.lower() raises stays in
\* memory as it was read.
FirstUse(rf) ==
  IF ~rf.exists THEN MissingRulesEmpty
  ELSE IF ~rf.readable THEN [loaded |-> FALSE, raised |-> TRUE, rows |-> <<>>]
  ELSE [loaded |-> TRUE, raised |-> NoTextKeyword(rf.rows),
        rows |-> LoadVendorRules(rf.rows)]

\* A classifier that loads the table at every call.
ReloadRules(vrd, rf) == FirstUse(rf)

\* The `if vendor_rules_df is None` block at the head of
\* determine_vendor_cat_tag.
EnsureRules(vrd, rf) == IF vrd.loaded THEN vrd ELSE FirstUse(rf)

\* ------------------------------------------------------------ the ledger
\* master_transactions.csv: whether the file exists and its data lines,
\* each a sequence of text fields under the header BatchCols.
NoLedger == [exists |-> FALSE, rows |-> <<>>]

\* to_csv(index=False) on the rows of a DataFrame.
WriteRows(rows) ==
  [r \in 1..Len(rows) |-> [i \in 1..Len(rows[r]) |-> CellText(rows[r][i])]]

\* pd.read_csv(master_filename)
ReadLedger(textRows) == ReadFrame(BatchCols, textRows).rows

\* An append that puts the new batch in front of the old rows.
ConcatNewFirst(master, new) == new \o master

\* pd.concat([master_df, new_df], ignore_index=True)
Concat(master, new) == master \o new

\* The DataFrame update_master_file writes.
MasterRows(led, new) ==
  IF led.exists THEN Concat(ReadLedger(led.rows), new) ELSE new

\* What master_df.to_csv can leave behind: the whole file; the old file,
\* when the file cannot be opened; or, when the write stops after the file
\* was opened and truncated, the first k lines of the new contents.
WriteResults(led, text) ==
  {[ok |-> TRUE, ledger |-> [exists |-> TRUE, rows |-> text]],
   [ok |-> FALSE, ledger |-> led]}
  \cup {[ok |-> FALSE, ledger |-> [exists |-> TRUE, rows |-> SubSeq(text, 1, k)]] :
          k \in 0..(Len(text) - 1)}

\* ----------------------------------------------------------------- labels
\* The statement label is cut to this many characters.
StatementWidth == 28

\* s[-n:]
LastChars(s, n) == IF Len(s) > n THEN SubSeq(s, Len(s) - n + 1, Len(s)) ELSE s

\* The header cell raw_df.iloc[0, 1]: whether reading it went through, and
\* str() of its value ("nan" for an empty cell).
Cell(ok, text) == [ok |-> ok, text |-> text]

\* The statement label process_excel_file starts with; stem is the file's
\* base name without its extension.
ExcelStatement(b2, stem) ==
  IF ~b2.ok THEN stem
  ELSE IF Len(b2.text) >= StatementWidth THEN LastChars(b2.text, StatementWidth)
  ELSE IF b2.text # Empty THEN b2.text
  ELSE stem

\* The statement label process_csv_file starts with.
CsvStatement(stem) ==
  IF Len(stem) > StatementWidth THEN LastChars(stem, StatementWidth) ELSE stem

\* The order of the dates FormatDate gives.
DateRank(t) ==
  CASE t = <<"01/01/70">> -> 1
    [] t = <<"01/05/24">> -> 2
    [] t = <<"01/07/24">> -> 3
    [] OTHER -> 0

\* f"{max_date.strftime(...)} to {min_date.strftime(...)}" inside its try:
\* min() and max() skip NaT, and strftime on NaT raises, which leaves the
\* label as it was.
DateRangeStatement(dates, fallback) ==
  LET known == {r \in 1..Len(dates) : dates[r].k = "str"}
  IN IF known = {} THEN fallback
     ELSE LET hi == CHOOSE r \in known :
                      \A q \in known : DateRank(dates[q].s) <= DateRank(dates[r].s)
              lo == CHOOSE r \in known :
                      \A q \in known : DateRank(dates[r].s) <= DateRank(dates[q].s)
          IN dates[hi].s \o <<" to ">> \o dates[lo].s

\* The marker determine_payment_method looks for, as one token of text.
PlatinumCard == <<"Platinum Card">>

\* The marker in some cell of a DataFrame.
MarkerInCells(frame) ==
  \E r \in 1..Len(frame.rows), i \in 1..Len(frame.cols) :
     IsSubstr(PlatinumCard, AsStr(frame.rows[r][i]))

\* The marker anywhere in the file on disk: its header line, its cells, or
\* what lies outside the table.
MarkerInText(raw, extra) ==
  \/ \E i \in 1..Len(raw.cols) : raw.cols[i] = "Platinum Card"
  \/ MarkerInCells(raw)
  \/ IsSubstr(PlatinumCard, extra)

\* determine_payment_method: "chase" by the file name, then "amex" when the
\* marker is in a cell of the DataFrame it was given or, failing that,
\* anywhere in the file.
DeterminePaymentMethod(stem, frame, raw, extra) ==
  LET byName == IF IsSubstr(<<"chase">>, Lower(stem)) THEN "chase" ELSE ""
      platinum_found == MarkerInCells(frame) \/ MarkerInText(raw, extra)
  IN IF platinum_found THEN "amex" ELSE byName

\* vacu_columns and is_vacu_file of bankfiles.process_csv_file.
VacuColumns ==
  <<"Account Number", "Post Date", "Check", "Description",
    "Debit", "Credit", "Status", "Balance">>
IsVacuFile(frame) == \A i \in 1..Len(VacuColumns) : HasCol(frame, VacuColumns[i])

\* A flow that does not know the VACU override.
NoVacuOverride(fl, isVacu, label) == label

\* `if is_vacu_file: payment_method = "vacu"` (bankfiles.process_csv_file only).
PaymentLabel(fl, isVacu, label) == IF fl = "csv" /\ isVacu THEN "vacu" ELSE label

\* A local that has not been assigned.
NotSet == "unset"

\* ----------------------------------------------------------------- state
VARIABLES
  file_path,        \* the file of the run: [stem, extra, enc, b2]
  statement_string, \* the local of that name
  payment_method,   \* the local of that name
  rulesFile,        \* vendor_rules.csv: [exists, readable, rows]
  vendor_rules_df,  \* the global of that name
  ledger,           \* master_transactions.csv
  pc,               \* where the run stands: idle, ask_col, ask_flip, ask_commit, done
  flow,             \* excel, csv (bankfiles.py) or csv9 (amex9.py)
  df,               \* the DataFrame read from the input file
  needed,           \* the columns the resolution loop goes through
  colAt,            \* the place in `needed` the open prompt is about
  column_mapping,   \* the dict of that name
  missing_cols,     \* the list of that name (process_csv_file)
  has_amount,       \* the flag of that name (bankfiles.process_csv_file)
  new_df,           \* the rows of the batch
  trace,            \* history: what the run did, in order
  outcome,          \* history: how the run ended
  pre,              \* history: the ledger when the run began
  built,            \* history: the batch as the sign check saw it
  flipAnswer,       \* history: the answers given at the flip prompt
  commitAnswer,     \* history: the answers given at the commit prompt
  colAnswer,        \* history: the column prompts of the run, and the column
                    \* each answer picked, if any
  committed,        \* history: the lines of the batches written, up to a failure
  everFailed,       \* history: some ledger write has failed
  callDesc,         \* the argument of the last direct classifier call
  callResult        \* and what it returned

vars == <<file_path, statement_string, payment_method, rulesFile, vendor_rules_df,
          ledger, pc, flow, df, needed, colAt,
          column_mapping, missing_cols, has_amount, new_df, trace, outcome, pre,
          built, flipAnswer, commitAnswer, colAnswer, committed, everFailed, callDesc,
          callResult>>

runVars == <<file_path, statement_string, payment_method, pc, flow, df, needed,
             colAt, column_mapping, missing_cols, has_amount,
             new_df, trace, outcome, pre, built, flipAnswer, commitAnswer, colAnswer>>

NoFrame == Frame(<<>>, <<>>)

\* The run after the resolution loop: rename, amounts, description, dates,
\* classification and the sign check, up to the next prompt or to the
\* exception that ends it.
Finish(fl, frame, mapping, missing, hasAmount, vrd, rf, fp, stmt) ==
  LET renamed == IF mapping # {} THEN Rename(frame, mapping) ELSE frame
      stillMissing ==
        IF fl = "excel"
        THEN SelectSeq(NeededColumns(fl, frame), LAMBDA c : ~HasCol(renamed, c))
        ELSE missing
      df1 == AddEmptyColumns(renamed, stillMissing)
      df2 == IF fl = "csv" THEN NormalizeAmount(df1, hasAmount) ELSE df1
      early == SelectionRaises(fl, df2)
      rows0 == IF early THEN <<>> ELSE BuildRows(fl, df2)
      rules == IF rows0 = <<>> THEN vrd ELSE EnsureRules(vrd, rf)
      results == [r \in 1..Len(rows0) |-> Classify(rows0[r][DescAt].s, rules.rows)]
      clsRaises == rules.raised \/ \E r \in 1..Len(rows0) : results[r].raised
      rows == IF clsRaises THEN <<>>
              ELSE [r \in 1..Len(rows0) |-> WithClassification(rows0[r], results[r])]
      amounts == [r \in 1..Len(rows) |-> rows[r][AmountAt]]
      cmpRaises == ~early /\ ~clsRaises /\ ComparisonRaises(amounts)
      raised == early \/ clsRaises \/ cmpRaises
      dates == [r \in 1..Len(rows0) |-> rows0[r][DateAt]]
  IN [raised |-> raised,
      statement |-> IF early \/ fl = "csv9" THEN stmt ELSE DateRangeStatement(dates, stmt),
      payment |-> IF early \/ clsRaises THEN NotSet
                  ELSE PaymentLabel(fl, IsVacuFile(frame),
                                    DeterminePaymentMethod(fp.stem, df2, frame, fp.extra)),
      rules |-> [rules EXCEPT !.raised = FALSE],
      rows |-> IF raised THEN <<>> ELSE rows,
      ask |-> ~raised /\ OffersFlip(amounts),
      events |-> (IF fl = "csv" THEN <<"normalize">> ELSE <<>>)
                   \o (IF early THEN <<>> ELSE <<"classify">>)
                   \o (IF early THEN <<"raise_select">>
                       ELSE IF clsRaises THEN <<"raise_classify">>
                       ELSE IF cmpRaises THEN <<"raise_compare">>
                       ELSE IF OffersFlip(amounts) THEN <<"ask_flip">>
                       ELSE <<"ask_commit">>)]

\* The state a run is in once Finish is through.
AfterFinish(fin, sofar) ==
  /\ vendor_rules_df' = fin.rules
  /\ statement_string' = fin.statement
  /\ payment_method' = fin.payment
  /\ new_df' = fin.rows
  /\ built' = fin.rows
  /\ trace' = sofar \o fin.events
  /\ pc' = IF fin.raised THEN "done" ELSE IF fin.ask THEN "ask_flip" ELSE "ask_commit"
  /\ outcome' = IF ~fin.raised THEN "running"
                ELSE IF flow' = "excel" THEN "caught" ELSE "uncaught"

\* ---------------------------------------------------------------- inputs
\* An input file: whether it can be read (utf8: at once; latin1: on the
\* second try; bad: not at all), its header and its data lines.
\* The file also has a base name without its extension (stem), the text it
\* holds outside its table (extra) and, as a spreadsheet, its header cell
\* (b2).  The extension is the one process_file sends to the flow.
File(enc, cols, rows) ==
  [enc |-> enc, cols |-> cols, rows |-> rows,
   stem |-> <<"bank">>, extra |-> <<>>, b2 |-> Cell(FALSE, <<>>)]
NoFile == [stem |-> <<>>, extra |-> <<>>, enc |-> "none", b2 |-> Cell(FALSE, <<>>)]
PathOf(f) == [stem |-> f.stem, extra |-> f.extra, enc |-> f.enc, b2 |-> f.b2]

DateNames == {"Date", "Post Date"}

\* The field of a line under the column called name, for a line that
\* stands for the amount text a and the description text d.
FieldFor(name, a, d) ==
  CASE name \in DateNames -> <<"2024-01-05">>
    [] name \in {"Amount", "AMOUNT", "Value"} -> a
    [] name \in {"Debit", "DEBIT"} -> IF a # <<>> /\ Head(a) = "-" THEN Empty ELSE a
    [] name \in {"Credit", "CREDIT"} -> IF a # <<>> /\ Head(a) = "-" THEN Tail(a) ELSE Empty
    [] OTHER -> d

LineFor(cols, base) == [i \in 1..Len(cols) |-> FieldFor(cols[i], base[1], base[2])]

SeqsUpTo(S, n) == UNION {[1..m -> S] : m \in 0..n}

\* The readable files with one of the headers and up to n lines over the
\* bases (an amount text and a description text each), and the one file
\* that cannot be read.
FilesOver(layouts, bases, n) ==
  {File("utf8", cols, [r \in 1..Len(b) |-> LineFor(cols, b[r])]) :
     cols \in layouts, b \in SeqsUpTo(bases, n)}
Unreadable == File("bad", <<>>, <<>>)

ExcelCols == <<"Date", "Amount", "Description", "Appears On Your Statement As">>

\* The answers typed at a yes/no prompt.
Answers == {<<"y">>, <<" ", "Y">>, <<"n">>, <<>>}

\* Rule tables on disk.
RuleAB == Rule(<<"a", "&", "B">>, <<"V">>, <<"C">>, <<"T">>)
RuleB == Rule(<<"b">>, <<"W">>, <<>>, <<"U">>)
NoRulesFile == [exists |-> FALSE, readable |-> TRUE, rows |-> <<>>]
RulesFileOf(rows) == [exists |-> TRUE, readable |-> TRUE, rows |-> rows]
UnreadableRules == [exists |-> TRUE, readable |-> FALSE, rows |-> <<>>]

\* A ledger an earlier run has left: one line, written by the CSV flow for a
\* line without a description and with no rule table.
OldLine == << <<"01/05/24">>, <<"1">>, <<"n", "a", "n">>, <<>>, <<>>, <<>> >>
OldLedger == [exists |-> TRUE, rows |-> <<OldLine>>]

\* The inputs of Spec: one run of each flow, with and without prompts.
SpecRuleFiles == {NoRulesFile, RulesFileOf(<<RuleAB, RuleB>>)}
SpecLedgers == {NoLedger, OldLedger}
SpecBases ==
  {<< <<"-", "1">>, <<"A", "b">> >>, << <<"1">>, <<"b">> >>, << <<"-", "1">>, <<>> >>}
SpecCsvFiles ==
  FilesOver({<<"Date", "Description", "Amount">>, <<"Date", "Memo", "Debit", "Credit">>},
            SpecBases, MaxBatch) \cup {Unreadable}
SpecCsv9Files ==
  FilesOver({<<"Date", "Description", "Amount">>, <<"Date", "Memo", "Amount">>},
            SpecBases, MaxBatch) \cup {Unreadable}
SpecExcelFiles ==
  FilesOver({ExcelCols, <<"Date", "Amount", "DESCRIPTION">>}, SpecBases, MaxBatch)
    \cup {Unreadable}

\* The inputs of SpecFlip: amounts of every kind under the plain headers.
FlipBases ==
  {<<a, <<"A", "b">> >> : a \in {<<"-", "1">>, <<"0">>, <<"1">>, <<>>, <<"x">>}}
FlipCsvFiles == FilesOver({<<"Date", "Description", "Amount">>}, FlipBases, MaxRows)
FlipExcelFiles == FilesOver({ExcelCols}, FlipBases, MaxRows)

\* The inputs of SpecLedger: run after run of the CSV flow.
LedgerBases == {<< <<"-", "1">>, <<"A", "b">> >>, << <<"1">>, <<>> >>}
LedgerFiles == FilesOver({<<"Date", "Description", "Amount">>}, LedgerBases, MaxBatch)

\* The inputs of SpecColumns: headers that name the needed columns, name
\* them by an alternative, or do not have them; files in either encoding.
ColumnBases ==
  {<< <<"-", "1">>, <<"A", "b">> >>, << <<"2">>, <<"b">> >>, << <<"x">>, <<>> >>}
CsvLayouts ==
  {<<"Post Date", "Description", "Amount">>,
   <<"Post Date", "Memo", "Amount">>,
   <<"Date", "Description", "AMOUNT">>,
   <<"Date", "Description", "Debit", "Credit">>,
   <<"Date", "Description", "DEBIT", "CREDIT">>,
   <<"Date", "Description">>,
   <<"Date", "Memo", "Amount">>,
   <<"Date", "Description", "Value">>}
Latin1(f) == [f EXCEPT !.enc = "latin1"]
ColumnCsvFiles ==
  LET files == FilesOver(CsvLayouts, ColumnBases, MaxBatch)
  IN files \cup {Latin1(f) : f \in {g \in files : Len(g.rows) = 0}} \cup {Unreadable}
ColumnExcelFiles ==
  FilesOver({<<"Date", "Description", "Appears On Your Statement As">>,
             <<"Amount", "Description", "Appears On Your Statement As">>},
            ColumnBases, MaxBatch)

\* The inputs of SpecLabels: file names with and without "chase", the marker
\* in a cell, in the header or outside the table, the VACU header, and
\* header cells of every length around StatementWidth.
MaxLabelRows == 1
MaxRuleRows == 1
MaxOver == 1
Named(f, stem) == [f EXCEPT !.stem = stem]
WithExtra(f, extra) == [f EXCEPT !.extra = extra]
WithB2(f, cell) == [f EXCEPT !.b2 = cell]
Undated(f) ==
  [f EXCEPT !.rows = [r \in 1..Len(f.rows) |->
                        [i \in 1..Len(f.cols) |->
                           IF f.cols[i] \in DateNames THEN <<"x">> ELSE f.rows[r][i]]]]
TextOfLen(n) == [i \in 1..n |-> Digits[(i % 10) + 1]]
LabelStems == {<<"bank">>, <<"Chase", "1">>, <<"my", "CHASE">>}
LabelBases ==
  {<< <<"1">>, <<"A", "b">> >>, << <<"-", "1">>, PlatinumCard >>,
   << <<"1">>, <<"platinum card">> >>}
LabelCsvLayouts ==
  {<<"Date", "Description", "Amount">>, VacuColumns,
   <<"Date", "Description", "Amount", "Platinum Card">>}
LabelCsvFiles ==
  {Named(f, stem) : f \in FilesOver(LabelCsvLayouts, LabelBases, MaxLabelRows),
                    stem \in LabelStems}
LabelCells ==
  {Cell(FALSE, <<>>), Cell(TRUE, <<"n", "a", "n">>)}
    \cup {Cell(TRUE, TextOfLen(n)) :
            n \in {0, 3} \cup ((StatementWidth - 1)..(StatementWidth + MaxOver))}
LabelExcelFiles ==
  LET dated == FilesOver({ExcelCols}, LabelBases, MaxLabelRows)
  IN {WithB2(WithExtra(Named(f, stem), extra), cell) :
        f \in dated \cup {Undated(g) : g \in dated},
        stem \in {<<"bank">>, <<"Chase", "1">>},
        extra \in {<<>>, PlatinumCard},
        cell \in LabelCells}

\* The inputs of SpecClassify.
Chars == {"a", "A", "b", "&", " "}
Descs == SeqsUpTo(Chars, MaxDescLen)
RuleA == Rule(<<"a">>, <<"V1">>, <<"C1">>, <<"T1">>)
RuleUpperA == Rule(<<"A">>, <<"V1">>, <<"C1">>, <<"T1">>)
RuleLowerB == Rule(<<"b">>, <<"V3">>, <<"C3">>, <<"T3">>)
RuleWord == Rule(<<"a", "b">>, <<"V4">>, <<"C4">>, <<"T4">>)
RuleBoth == Rule(<<"a", "&", "b">>, <<"V5">>, <<"C5">>, <<"T5">>)
RuleSpaced == Rule(<<" ", "B", " ", "&", "a">>, <<"V6">>, <<"C6">>, <<"T6">>)
ClassifyRules == {RuleA, RuleUpperA, RuleLowerB, RuleWord, RuleBoth, RuleSpaced}
ClassifyRuleFiles == {RulesFileOf(rows) : rows \in SeqsUpTo(ClassifyRules, MaxRules)}

\* The inputs of SpecBlank: rules whose keyword is empty, is a space, or
\* ends in the separator, next to a plain one.
RuleNone == Rule(<<>>, <<"V7">>, <<"C7">>, <<"T7">>)
RuleSpace == Rule(<<" ">>, <<"V8">>, <<"C8">>, <<"T8">>)
RuleTrailing == Rule(<<"a", "&">>, <<"V9">>, <<"C9">>, <<"T9">>)
BlankRules == {RuleLowerB, RuleNone, RuleSpace, RuleTrailing}
BlankRuleFiles == {RulesFileOf(rows) : rows \in SeqsUpTo(BlankRules, MaxRules)}

\* The inputs of SpecRules: rule tables that come, go and change between
\* runs, and files whose lines the tables classify differently.
RuleSources ==
  {NoRulesFile, UnreadableRules, RulesFileOf(<<RuleA>>), RulesFileOf(<<RuleLowerB>>),
   RulesFileOf(<<RuleNone>>)}
RuleRunBases == {<< <<"1">>, <<"a">> >>, << <<"1">>, <<"b">> >>}
RuleRunCsvFiles == FilesOver({<<"Date", "Description", "Amount">>}, RuleRunBases, MaxRuleRows)
RuleRunExcelFiles == FilesOver({ExcelCols}, RuleRunBases, MaxRuleRows)

\* ------------------------------------------------------------------ Init
InitWith(ruleFiles, ledgers) ==
  /\ rulesFile \in ruleFiles
  /\ vendor_rules_df = NotLoaded
  /\ ledger \in ledgers
  /\ pc = "idle"
  /\ flow = "none"
  /\ df = NoFrame
  /\ needed = <<>>
  /\ colAt = 0
  /\ column_mapping = {}
  /\ missing_cols = <<>>
  /\ has_amount = FALSE
  /\ new_df = <<>>
  /\ trace = <<>>
  /\ outcome = "none"
  /\ pre = ledger
  /\ built = <<>>
  /\ flipAnswer = <<>>
  /\ commitAnswer = <<>>
  /\ colAnswer = <<>>
  /\ file_path = NoFile
  /\ statement_string = Empty
  /\ payment_method = NotSet
  /\ committed = ledger.rows
  /\ everFailed = FALSE
  /\ callDesc = NaN
  /\ callResult = Unclassified

\* --------------------------------------------------------------- actions
\* The loop stops at a prompt, or the run goes on to Finish.
AfterResolve(res, sofar, stmt, fp) ==
  IF res.at <= Len(needed')
  THEN /\ pc' = "ask_col"
       /\ colAt' = res.at
       /\ column_mapping' = res.mapping
       /\ trace' = Append(sofar, "ask_col")
       /\ outcome' = "running"
       /\ statement_string' = stmt
       /\ payment_method' = NotSet
       /\ UNCHANGED <<vendor_rules_df, new_df, built>>
  ELSE /\ colAt' = 0
       /\ column_mapping' = res.mapping
       /\ AfterFinish(Finish(flow', df', res.mapping, missing_cols', has_amount',
                             vendor_rules_df, rulesFile, fp, stmt),
                       sofar)

\* A read that gives up after its first failure.
NoRetry(enc) == <<"read">>

\* The calls of pd.read_csv in process_csv_file: the plain one and, when it
\* raises, the one with encoding='latin1'.
ReadEvents(enc) == IF enc = "utf8" THEN <<"read">> ELSE <<"read", "reread">>

\* process_csv_file(f) up to its first prompt: the read with its one retry,
\* then the resolution loop.
StartCsv(fl, f) ==
  /\ pc = "idle"
  /\ Len(ledger.rows) + Len(f.rows) <= MaxLedger
  /\ flow' = fl
  /\ pre' = ledger
  /\ flipAnswer' = <<>>
  /\ commitAnswer' = <<>>
  /\ colAnswer' = <<>>
  /\ missing_cols' = <<>>
  /\ file_path' = PathOf(f)
  /\ IF f.enc = "bad"
     THEN /\ pc' = "done"
          /\ outcome' = "unread"
          /\ trace' = ReadEvents(f.enc)
          /\ statement_string' = CsvStatement(f.stem)
          /\ payment_method' = NotSet
          /\ UNCHANGED <<df, needed, colAt, column_mapping, has_amount, new_df,
                         built, vendor_rules_df>>
     ELSE /\ df' = ReadFrame(f.cols, f.rows)
          /\ needed' = NeededColumns(fl, df')
          /\ has_amount' = (fl = "csv" /\ HasCol(df', "Amount"))
          /\ AfterResolve(ResolveFrom(fl, df', needed', 1, {}),
                          ReadEvents(f.enc),
                          CsvStatement(f.stem), PathOf(f))
  /\ UNCHANGED <<rulesFile, ledger, committed, everFailed, callDesc, callResult>>

\* process_excel_file(f) up to its first prompt.  A file read_excel cannot
\* read raises inside the try block.
StartExcel(f) ==
  /\ pc = "idle"
  /\ Len(ledger.rows) + Len(f.rows) <= MaxLedger
  /\ flow' = "excel"
  /\ pre' = ledger
  /\ flipAnswer' = <<>>
  /\ commitAnswer' = <<>>
  /\ colAnswer' = <<>>
  /\ missing_cols' = <<>>
  /\ has_amount' = FALSE
  /\ file_path' = PathOf(f)
  /\ IF f.enc = "bad"
     THEN /\ pc' = "done"
          /\ outcome' = "caught"
          /\ trace' = <<"read", "raise_read">>
          /\ statement_string' = ExcelStatement(f.b2, f.stem)
          /\ payment_method' = NotSet
          /\ UNCHANGED <<df, needed, colAt, column_mapping, new_df, built,
                         vendor_rules_df>>
     ELSE LET frame == ReadFrame(f.cols, f.rows)
              missing == SelectSeq(ExcelCols, LAMBDA c : ~HasCol(frame, c))
          IN /\ df' = IF missing # <<>> /\ ~HasCol(frame, "Description")
                                        /\ HasCol(frame, "DESCRIPTION")
                      THEN Rename(frame, {<<"DESCRIPTION", "Description">>})
                      ELSE frame
             /\ needed' = missing
             /\ AfterResolve([at |-> 1, mapping |-> {}], <<"read">>,
                             ExcelStatement(f.b2, f.stem),
                             PathOf(f))
  /\ UNCHANGED <<rulesFile, ledger, committed, everFailed, callDesc, callResult>>

\* The answer to "Which column should be used for ...?".
AnswerColumn(choice) ==
  /\ pc = "ask_col"
  /\ LET col == needed[colAt]
         picked == PicksColumn(df, choice)
         mapping == IF picked THEN DictPut(column_mapping, df.cols[choice.n], col)
                    ELSE column_mapping
     IN /\ missing_cols' = IF ~picked /\ flow # "excel"
                           THEN Append(missing_cols, col) ELSE missing_cols
        /\ colAnswer' = Append(colAnswer,
                                [col |-> col, picked |-> picked,
                                 column |-> IF picked THEN df.cols[choice.n] ELSE ""])
        /\ UNCHANGED <<flow, df, needed, has_amount>>
        /\ AfterResolve(IF flow = "excel" THEN [at |-> colAt + 1, mapping |-> mapping]
                        ELSE ResolveFrom(flow, df, needed, colAt + 1, mapping),
                        trace, statement_string, file_path)
  /\ UNCHANGED <<file_path, rulesFile, ledger, pre, flipAnswer, commitAnswer,
                 committed, everFailed, callDesc, callResult>>

\* The answer to "Flip signs? (Y/N)", up to the commit prompt.
AnswerFlip(answer) ==
  /\ pc = "ask_flip"
  /\ flipAnswer' = Append(flipAnswer, answer)
  /\ new_df' = IF IsYes(answer)
               THEN [r \in 1..Len(new_df) |->
                       [new_df[r] EXCEPT ![AmountAt] = Negate(new_df[r][AmountAt])]]
               ELSE new_df
  /\ trace' = trace \o (IF IsYes(answer) THEN <<"flip">> ELSE <<>>) \o <<"ask_commit">>
  /\ pc' = "ask_commit"
  /\ UNCHANGED <<rulesFile, vendor_rules_df, ledger, flow, df, needed, colAt,
                 column_mapping, missing_cols, has_amount, outcome, pre, built,
                 commitAnswer, colAnswer, committed, everFailed, callDesc, callResult,
                 file_path, statement_string, payment_method>>

\* The answer to "Does everything look good? (Y/N)": update_master_file on
\* a yes, with every result its to_csv can have, and the end of the run.
AnswerCommit(answer) ==
  /\ pc = "ask_commit"
  /\ commitAnswer' = Append(commitAnswer, answer)
  /\ pc' = "done"
  /\ IF IsYes(answer)
     THEN \E w \in WriteResults(ledger, WriteRows(MasterRows(ledger, new_df))) :
            /\ ledger' = w.ledger
            /\ trace' = Append(trace, "write")
            /\ outcome' = IF w.ok THEN "written"
                          ELSE IF flow = "excel" THEN "caught" ELSE "uncaught"
            /\ committed' = IF w.ok /\ ~everFailed THEN committed \o WriteRows(new_df)
                            ELSE committed
            /\ everFailed' = (everFailed \/ ~w.ok)
     ELSE /\ outcome' = "declined"
          /\ UNCHANGED <<ledger, trace, committed, everFailed>>
  /\ UNCHANGED <<rulesFile, vendor_rules_df, flow, df, needed, colAt, column_mapping,
                 missing_cols, has_amount, new_df, pre, built, flipAnswer, colAnswer,
                 callDesc, callResult, file_path, statement_string, payment_method>>

ResetRun ==
  /\ pc' = "idle"
  /\ file_path' = NoFile
  /\ statement_string' = Empty
  /\ payment_method' = NotSet
  /\ flow' = "none"
  /\ df' = NoFrame
  /\ needed' = <<>>
  /\ colAt' = 0
  /\ column_mapping' = {}
  /\ missing_cols' = <<>>
  /\ has_amount' = FALSE
  /\ new_df' = <<>>
  /\ trace' = <<>>
  /\ outcome' = "none"
  /\ pre' = ledger
  /\ built' = <<>>
  /\ flipAnswer' = <<>>
  /\ commitAnswer' = <<>>
  /\ colAnswer' = <<>>

\* The process ends (main returns, or the exception reaches the top); the
\* next run is a new process, whose vendor_rules_df is None again.
Exit ==
  /\ pc = "done"
  /\ ResetRun
  /\ vendor_rules_df' = NotLoaded
  /\ UNCHANGED <<rulesFile, ledger, committed, everFailed, callDesc, callResult>>

\* process_file is called again in the same process.
Again ==
  /\ pc = "done"
  /\ outcome # "uncaught"
  /\ ResetRun
  /\ UNCHANGED <<rulesFile, vendor_rules_df, ledger, committed, everFailed,
                 callDesc, callResult>>

\* vendor_rules.csv is written, replaced or removed between two runs.
ChangeRules(rf) ==
  /\ pc = "idle"
  /\ rf # rulesFile
  /\ rulesFile' = rf
  /\ UNCHANGED <<vendor_rules_df, ledger, committed, everFailed, callDesc, callResult>>
  /\ UNCHANGED runVars

\* determine_vendor_cat_tag(d) called on its own.
ClassifyCall(d) ==
  /\ pc = "idle"
  /\ LET rules == EnsureRules(vendor_rules_df, rulesFile)
     IN /\ vendor_rules_df' = [rules EXCEPT !.raised = FALSE]
        /\ callDesc' = d
        /\ callResult' = IF rules.raised THEN Raised ELSE Classify(d, rules.rows)
  /\ UNCHANGED <<rulesFile, ledger, committed, everFailed>>
  /\ UNCHANGED runVars

\* --------------------------------------------------------- specifications
\* One run of any flow, over files with and without missing columns, from
\* an absent or an existing ledger.
Init == InitWith(SpecRuleFiles, SpecLedgers)

Next ==
  \/ \E f \in SpecCsvFiles : StartCsv("csv", f)
  \/ \E f \in SpecCsv9Files : StartCsv("csv9", f)
  \/ \E f \in SpecExcelFiles : StartExcel(f)
  \/ \E c \in Choices(df) : AnswerColumn(c)
  \/ \E a \in Answers : AnswerFlip(a)
  \/ \E a \in Answers : AnswerCommit(a)

Spec == Init /\ [][Next]_vars

\* One run over batches of every mix of amounts.
InitFlip == InitWith({NoRulesFile}, {NoLedger})

NextFlip ==
  \/ \E f \in FlipCsvFiles : StartCsv("csv", f)
  \/ \E f \in FlipCsvFiles : StartCsv("csv9", f)
  \/ \E f \in FlipExcelFiles : StartExcel(f)
  \/ \E a \in Answers : AnswerFlip(a)
  \/ \E a \in Answers : AnswerCommit(a)

SpecFlip == InitFlip /\ [][NextFlip]_vars

\* Run after run on one ledger, from no ledger at all.
InitLedger == InitWith({RulesFileOf(<<RuleAB, RuleB>>)}, {NoLedger})

NextLedger ==
  \/ \E f \in LedgerFiles : StartCsv("csv", f)
  \/ \E a \in Answers : AnswerFlip(a)
  \/ \E a \in Answers : AnswerCommit(a)
  \/ Exit
  \/ Again

SpecLedger == InitLedger /\ [][NextLedger]_vars

\* One run over files whose columns have to be resolved.
InitColumns == InitWith({NoRulesFile}, {NoLedger})

NextColumns ==
  \/ \E f \in ColumnCsvFiles : StartCsv("csv", f)
  \/ \E f \in ColumnCsvFiles : StartCsv("csv9", f)
  \/ \E f \in ColumnExcelFiles : StartExcel(f)
  \/ \E c \in Choices(df) : AnswerColumn(c)
  \/ \E a \in Answers : AnswerFlip(a)
  \/ \E a \in Answers : AnswerCommit(a)

SpecColumns == InitColumns /\ [][NextColumns]_vars

\* One run over files that differ in what the labels are made from.
InitLabels == InitWith({NoRulesFile}, {NoLedger})

NextLabels ==
  \/ \E f \in LabelCsvFiles : StartCsv("csv", f)
  \/ \E f \in LabelCsvFiles : StartCsv("csv9", f)
  \/ \E f \in LabelExcelFiles : StartExcel(f)
  \/ \E a \in Answers : AnswerFlip(a)
  \/ \E a \in Answers : AnswerCommit(a)

SpecLabels == InitLabels /\ [][NextLabels]_vars

\* The classifier called on its own, on every description and rule table.
InitClassify == InitWith(ClassifyRuleFiles, {NoLedger})

\* A first call on any description, then the same call again.
NextClassify == \E d \in Descs : callDesc \in {NaN, d} /\ ClassifyCall(d)

SpecClassify == InitClassify /\ [][NextClassify]_vars

\* Run after run in one process and in the next, none committed, while
\* the rule table on disk changes between the runs.
InitRules == InitWith(RuleSources, {NoLedger})

NextRules ==
  \/ \E f \in RuleRunCsvFiles : StartCsv("csv", f)
  \/ \E f \in RuleRunExcelFiles : StartExcel(f)
  \/ AnswerCommit(<<"n">>)
  \/ \E rf \in RuleSources : ChangeRules(rf)
  \/ Again
  \/ Exit

SpecRules == InitRules /\ [][NextRules]_vars

\* The classifier called on its own over tables with blank keywords.
InitBlank == InitWith(BlankRuleFiles, {NoLedger})

NextBlank == \E d \in Descs : callDesc \in {NaN, d} /\ ClassifyCall(d)

SpecBlank == InitBlank /\ [][NextBlank]_vars

\* ------------------------------------------------------------- properties
Range(seq) == {seq[i] : i \in 1..Len(seq)}

\* A yes at a prompt: the letter y, in either case, spaces around it or not.
Affirmative(answer) ==
  \E i \in 1..Len(answer) :
     /\ answer[i] \in {"y", "Y"}
     /\ \A j \in 1..Len(answer) : j # i => answer[j] = " "

\* Two texts that differ in the case of their letters at most.
FoldChar(c) == IF c \in {"a", "A"} THEN "a" ELSE IF c \in {"b", "B"} THEN "b" ELSE c
SameUpToCase(s, t) ==
  Len(s) = Len(t) /\ \A i \in 1..Len(s) : FoldChar(s[i]) = FoldChar(t[i])

\* A rule matches a description when each of its "&"-separated keywords,
\* trimmed, occurs in the description, case aside.
Occurs(k, d) ==
  \E at \in 0..(Len(d) - Len(k)) : SameUpToCase(k, SubSeq(d, at + 1, at + Len(k)))
FullyMatches(rule, d) ==
  LET parts == Split(rule.keyword, "&")
  IN \A j \in 1..Len(parts) : Occurs(Strip(parts[j]), d)

\* C1: a run whose commit prompt is answered with anything but a yes, or
\* that never gets to the prompt, leaves the ledger as it was when the run
\* began: the same lines, and absent if it was absent.
C1_NoYesLedgerUnchanged ==
  (commitAnswer = <<>> \/ ~Affirmative(commitAnswer[1])) => ledger = pre

C1_Witness ==
  /\ pc = "done"
  /\ commitAnswer = << <<"n">> >>
  /\ Len(new_df) > 0
  /\ pre = OldLedger

\* C2: a run whose write of the ledger fails leaves the ledger as it was
\* before the run.
C2_FailedWriteLedgerUnchanged ==
  (pc = "done" /\ trace # <<>> /\ trace[Len(trace)] = "write" /\ outcome # "written")
    => ledger = pre

Without(rules, i) == SubSeq(rules, 1, i - 1) \o SubSeq(rules, i + 1, Len(rules))
WithAt(rules, at, rule) ==
  SubSeq(rules, 1, at - 1) \o <<rule>> \o SubSeq(rules, at, Len(rules))
Moved(rules, i, at) == WithAt(Without(rules, i), at, rules[i])

\* What the first matching rule of the table gives, or the three empty texts.
FirstMatch(d, rules) ==
  LET hits == {i \in 1..Len(rules) : FullyMatches(rules[i], d)}
  IN IF hits = {} THEN Unclassified
     ELSE Matched(rules[CHOOSE i \in hits : \A h \in hits : i <= h])

\* C4: the classifier returns the fields of the first rule of the table all
\* of whose keywords occur in the description, and three empty texts when
\* there is none; the same call on the same table returns the same again;
\* and taking out, putting in or moving a rule that does not match the
\* description changes nothing.
C4_FirstMatchingRule ==
  callDesc # NaN =>
    LET rules == vendor_rules_df.rows
        others == LoadVendorRules(<<RuleA, RuleUpperA, RuleLowerB, RuleWord, RuleBoth, RuleSpaced>>)
    IN /\ callResult = FirstMatch(callDesc, rules)
       /\ Classify(callDesc, rules) = callResult
       /\ \A i \in 1..Len(rules) :
            ~FullyMatches(rules[i], callDesc) =>
              /\ Classify(callDesc, Without(rules, i)) = callResult
              /\ \A at \in 1..Len(rules) :
                   Classify(callDesc, Moved(rules, i, at)) = callResult
       /\ \A o \in 1..Len(others), at \in 1..(Len(rules) + 1) :
            ~FullyMatches(others[o], callDesc) =>
              Classify(callDesc, WithAt(rules, at, others[o])) = callResult

C4_Witness ==
  /\ callDesc # NaN
  /\ Len(vendor_rules_df.rows) = 2
  /\ ~FullyMatches(vendor_rules_df.rows[1], callDesc)
  /\ FullyMatches(vendor_rules_df.rows[2], callDesc)
  /\ Len(Split(vendor_rules_df.rows[2].keyword, "&")) = 2
  /\ callResult = Matched(vendor_rules_df.rows[2])

\* Two rule files that differ in the case of their keywords at most.
SameRulesUpToCase(rows1, rows2) ==
  /\ Len(rows1) = Len(rows2)
  /\ \A i \in 1..Len(rows1) :
       /\ SameUpToCase(rows1[i].keyword, rows2[i].keyword)
       /\ rows1[i].vendor = rows2[i].vendor
       /\ rows1[i].category = rows2[i].category
       /\ rows1[i].tag = rows2[i].tag

\* C5: the classifier gives the same result for descriptions that differ in
\* letter case only, and for rule files whose keywords differ in letter case
\* only.
C5_CaseInsensitive ==
  callDesc # NaN =>
    /\ \A d \in Descs :
         SameUpToCase(d, callDesc) => Classify(d, vendor_rules_df.rows) = callResult
    /\ \A rf \in ClassifyRuleFiles :
         SameRulesUpToCase(rf.rows, rulesFile.rows) =>
           Classify(callDesc, LoadVendorRules(rf.rows)) = callResult

C5_Witness ==
  /\ callDesc = <<"A", "b">>
  /\ rulesFile.rows = <<RuleSpaced>>
  /\ callResult = Matched(RuleSpaced)

\* A field of a batch row that holds a text, and one that holds none.
Populated(cell) == cell.k = "str" /\ cell.s # Empty
Blank(cell) == cell.k = "nan" \/ (cell.k = "str" /\ cell.s = Empty)

\* C6 (as the specification has it): in every row of a batch, vendor,
\* category and tag are all three populated or all three empty.
C6_AllOrNone ==
  \A r \in 1..Len(new_df) :
     \/ \A at \in {VendorAt, CategoryAt, TagAt} : Populated(new_df[r][at])
     \/ \A at \in {VendorAt, CategoryAt, TagAt} : Blank(new_df[r][at])

\* C6 (amended): in every row of a batch, vendor, category and tag are the
\* three fields of one rule that matches the row's description, each as the
\* rule has it, blank where the rule's field is blank; or no rule matches
\* and all three are the empty text.
C6_FieldsOfOneRule ==
  \A r \in 1..Len(new_df) :
     LET rules == vendor_rules_df.rows
         d == new_df[r][DescAt].s
     IN \/ \E i \in 1..Len(rules) :
             /\ FullyMatches(rules[i], d)
             /\ new_df[r][VendorAt] = ObjCell(rules[i].vendor)
             /\ new_df[r][CategoryAt] = ObjCell(rules[i].category)
             /\ new_df[r][TagAt] = ObjCell(rules[i].tag)
        \/ /\ \A i \in 1..Len(rules) : ~FullyMatches(rules[i], d)
           /\ \A at \in {VendorAt, CategoryAt, TagAt} : new_df[r][at] = Str(Empty)

C6_Witness ==
  /\ pc = "ask_commit"
  /\ \E r \in 1..Len(new_df) :
       /\ new_df[r][VendorAt] = Str(<<"W">>)
       /\ new_df[r][CategoryAt] = Missing
       /\ new_df[r][TagAt] = Str(<<"U">>)
  /\ \E r \in 1..Len(new_df) :
       \A at \in {VendorAt, CategoryAt, TagAt} : Populated(new_df[r][at])

\* C7: when the rule file is absent, the first classification of the run
\* does not raise: the rule table is the empty table from then on, every row
\* of the batch gets three empty fields, and the run goes on to its prompts
\* (unless the comparison of the amounts raises afterwards).
C7_MissingRulesRecovered ==
  (~rulesFile.exists /\ "classify" \in Range(trace)) =>
    /\ "raise_classify" \notin Range(trace)
    /\ (vendor_rules_df.loaded => vendor_rules_df.rows = <<>>)
    /\ (built # <<>> => vendor_rules_df.loaded)
    /\ \A r \in 1..Len(built) :
         \A at \in {VendorAt, CategoryAt, TagAt} : built[r][at] = Str(Empty)
    /\ ("raise_compare" \notin Range(trace) =>
          pc \in {"ask_flip", "ask_commit"} \/ commitAnswer # <<>>)

C7_Witness ==
  /\ ~rulesFile.exists
  /\ pc = "ask_commit"
  /\ vendor_rules_df = [loaded |-> TRUE, raised |-> FALSE, rows |-> <<>>]
  /\ Len(new_df) = 2
  /\ new_df[1][DescAt].s = <<"A", "b">>

\* The amount with its sign turned; a missing amount stays missing.
Opposite(cell) == IF cell.k = "num" THEN Num(0 - cell.n) ELSE cell

\* Whether the flip prompt was answered, and with a yes.
FlipConfirmed == flipAnswer # <<>> /\ Affirmative(flipAnswer[1])

\* C8: once the run is at its commit prompt, the batch is the batch the
\* sign check saw with every amount negated when the flip was confirmed,
\* and that batch with no amount changed when the flip was declined or not
\* offered; nothing but the amounts differs, and what a commit writes is
\* this batch.
C8_FlipAllOrNothing ==
  (pc = "ask_commit" \/ commitAnswer # <<>>) =>
    /\ Len(new_df) = Len(built)
    /\ IF FlipConfirmed
       THEN \A r \in 1..Len(new_df) :
              new_df[r] = [built[r] EXCEPT ![AmountAt] = Opposite(built[r][AmountAt])]
       ELSE new_df = built
    /\ (outcome = "written" => ledger.rows = WriteRows(new_df))

C8_Witness ==
  /\ outcome = "written"
  /\ FlipConfirmed
  /\ Len(built) = 3
  /\ built[1][AmountAt] = Num(1)
  /\ built[2][AmountAt] = Num(-1)
  /\ new_df[1][AmountAt] = Num(-1)
  /\ new_df[2][AmountAt] = Num(1)

\* The rows with an amount below zero, and above.
Negatives(rows) == {r \in 1..Len(rows) : rows[r][AmountAt].k = "num" /\ rows[r][AmountAt].n < 0}
Positives(rows) == {r \in 1..Len(rows) : rows[r][AmountAt].k = "num" /\ rows[r][AmountAt].n > 0}

Count(seq, e) == Cardinality({i \in 1..Len(seq) : seq[i] = e})

\* C9: a run asks for the flip at most once, and a run that has got past
\* its sign check has asked exactly when the batch had more amounts below
\* zero than above; amounts of zero count for neither side.
C9_FlipPromptOnceAndWhenDue ==
  /\ Count(trace, "ask_flip") <= 1
  /\ Len(flipAnswer) <= 1
  /\ Len(flipAnswer) <= Count(trace, "ask_flip")
  /\ (pc \in {"ask_flip", "ask_commit"} \/ commitAnswer # <<>>) =>
       ("ask_flip" \in Range(trace)
          <=> Cardinality(Negatives(built)) > Cardinality(Positives(built)))

C9_Witness ==
  /\ pc = "ask_commit"
  /\ "ask_flip" \notin Range(trace)
  /\ Len(built) = 3
  /\ Cardinality(Negatives(built)) = 1
  /\ Cardinality(Positives(built)) = 1

\* Every a of the run's history comes before every b.
Before(a, b) ==
  \A i, j \in 1..Len(trace) : (trace[i] = a /\ trace[j] = b) => i < j

\* C10: in one run, the column prompts come before the amounts are
\* normalized and before classification; the flip prompt comes after
\* classification and before the commit prompt, and so does the flip; the
\* commit prompt comes once the batch is classified; the ledger is written
\* at most once, after the commit prompt of the run and only on a yes to it,
\* with the batch as it stood at that prompt; and the ledger changes in no
\* other way.
C10_InteractionsInOrder ==
  /\ Before("ask_col", "normalize")
  /\ Before("ask_col", "classify")
  /\ Before("normalize", "classify")
  /\ Before("classify", "ask_flip")
  /\ Before("ask_flip", "flip")
  /\ Before("ask_flip", "ask_commit")
  /\ Before("flip", "ask_commit")
  /\ Before("classify", "ask_commit")
  /\ Before("ask_commit", "write")
  /\ ("ask_flip" \in Range(trace) => "classify" \in Range(trace))
  /\ ("ask_commit" \in Range(trace) => "classify" \in Range(trace))
  /\ Count(trace, "ask_commit") <= 1
  /\ Count(trace, "write") <= 1
  /\ ("write" \in Range(trace) =>
        /\ "ask_commit" \in Range(trace)
        /\ commitAnswer # <<>>
        /\ Affirmative(commitAnswer[1]))
  /\ (ledger # pre => "write" \in Range(trace))
  /\ (outcome = "written" =>
        /\ Len(ledger.rows) = Len(pre.rows) + Len(new_df)
        /\ SubSeq(ledger.rows, Len(pre.rows) + 1, Len(ledger.rows)) = WriteRows(new_df))

C10_Witness ==
  /\ trace = <<"read", "ask_col", "normalize", "classify", "ask_flip", "flip",
               "ask_commit", "write">>
  /\ outcome = "written"
  /\ pre = OldLedger

\* The columns of the file the answers at the column prompts have picked.
PickedColumns ==
  {colAnswer[i].column : i \in {j \in 1..Len(colAnswer) : colAnswer[j].picked}}

\* The fields the column prompts of the run were about.
AskedFields == {colAnswer[i].col : i \in 1..Len(colAnswer)}

\* C11: in a CSV run on a file with a column "Post Date" and no column
\* "Date", no column prompt is about Date, neither one answered nor the one
\* that is open; "Post Date" is mapped to Date for as long as no answer has
\* given that column to another field; and the dates of the batch are then
\* those of "Post Date".
C11_PostDateForDate ==
  (flow \in {"csv", "csv9"} /\ HasCol(df, "Post Date") /\ ~HasCol(df, "Date")) =>
    /\ "Date" \notin AskedFields
    /\ (pc = "ask_col" => needed[colAt] # "Date")
    /\ ("Post Date" \notin PickedColumns => <<"Post Date", "Date">> \in column_mapping)
    /\ ("Post Date" \notin PickedColumns =>
          \A r \in 1..Len(built) :
             built[r][DateAt] = IF flow = "csv"
                                THEN FormatDate(Column(df, "Post Date")[r])
                                ELSE Column(df, "Post Date")[r])

C11_Witness ==
  /\ flow = "csv"
  /\ df.cols = <<"Post Date", "Memo", "Amount">>
  /\ pc = "ask_commit"
  /\ Len(colAnswer) = 1
  /\ "Post Date" \notin PickedColumns
  /\ Len(built) = 2
  /\ built[1][DateAt] = Str(<<"01/05/24">>)

\* C12: in a CSV run on a file with a column "AMOUNT" and no column
\* "Amount", the amounts of the batch are the values of "AMOUNT".
C12_AmountAlternativeUsed ==
  (flow \in {"csv", "csv9"} /\ HasCol(df, "AMOUNT") /\ ~HasCol(df, "Amount")) =>
    \A r \in 1..Len(built) : built[r][AmountAt] = Column(df, "AMOUNT")[r]

\* The marker is somewhere in the file of the run: in a cell, in the header
\* line, or outside the table.
MarkerInFile ==
  \/ \E r \in 1..Len(df.rows), i \in 1..Len(df.cols) :
        df.rows[r][i].k = "str" /\ "Platinum Card" \in Range(df.rows[r][i].s)
  \/ "Platinum Card" \in Range(df.cols)
  \/ "Platinum Card" \in Range(file_path.extra)

\* The name of the file of the run has "chase" in it, in whatever case.
ChaseInName == \E i \in 1..Len(file_path.stem) : file_path.stem[i] \in {"chase", "Chase", "CHASE"}

\* C13: the payment method of a batch of bankfiles.process_csv_file is
\* "vacu" when the file has all eight VACU columns; otherwise "amex" when
\* the marker is in the file; otherwise "chase" when the file name has
\* "chase" in it; otherwise empty.  A run that gets to a prompt has it set.
C13_PaymentPrecedence ==
  flow = "csv" =>
    /\ (pc \in {"ask_flip", "ask_commit"} => payment_method # NotSet)
    /\ (payment_method # NotSet =>
          payment_method =
            IF Range(VacuColumns) \subseteq Range(df.cols) THEN "vacu"
            ELSE IF MarkerInFile THEN "amex"
            ELSE IF ChaseInName THEN "chase"
            ELSE "")

C13_Witness ==
  /\ flow = "csv"
  /\ payment_method = "vacu"
  /\ ChaseInName
  /\ MarkerInFile
  /\ pc = "ask_commit"

\* The required fields the resolver was told to skip in this run.
SkippedFields ==
  {colAnswer[i].col : i \in {j \in 1..Len(colAnswer) : ~colAnswer[j].picked}}
    \cap {"Date", "Amount", "Description"}

\* The run failed: an exception ended it, caught or not.
RunFailed == \E i \in 1..Len(trace) :
  trace[i] \in {"raise_select", "raise_classify", "raise_compare", "raise_read"}

\* The file of the run has no text where an amount, a debit or a credit
\* should be, and no column was picked by hand.
OnlySkips ==
  /\ \A i \in 1..Len(colAnswer) : ~colAnswer[i].picked
  /\ \A r \in 1..Len(df.rows), i \in 1..Len(df.cols) :
        df.cols[i] \in {"Amount", "Debit", "Credit"} => df.rows[r][i].k # "str"

\* C14: once the resolver was told to skip a required field, the run does
\* not fail, and when it gets to the commit confirmation the batch has one
\* record for every line of the file.
C14_SkipNeverFails ==
  (SkippedFields # {} /\ OnlySkips /\ pc # "ask_col") =>
    /\ ~RunFailed
    /\ (pc = "ask_commit" => Len(new_df) = Len(df.rows))

\* The column names the run has once the resolver's mapping is applied.
ResolvedNames ==
  {IF \E p \in column_mapping : p[1] = df.cols[i]
   THEN (CHOOSE p \in column_mapping : p[1] = df.cols[i])[2]
   ELSE df.cols[i] : i \in 1..Len(df.cols)}

\* What a debit or credit cell counts for: its number, and 0 when it is
\* missing or is text that is no number.
Worth(cell) ==
  CASE cell.k = "num" -> cell.n
    [] cell.k = "str" /\ cell.s = <<"1">> -> 1
    [] cell.k = "str" /\ cell.s = <<"2">> -> 2
    [] OTHER -> 0

CellUnder(name, r) == df.rows[r][CHOOSE i \in 1..Len(df.cols) : df.cols[i] = name]

\* C15: in bankfiles.process_csv_file, a batch made from a file with no
\* direct amount column has, for a file with a Debit and a Credit column,
\* debit minus credit as the amount of every record, a missing or
\* unparseable debit or credit counting as 0; with no such pair, every amount is 0.
C15_DebitMinusCredit ==
  (flow = "csv" /\ pc \in {"ask_flip", "ask_commit"} /\ "Amount" \notin ResolvedNames) =>
    /\ Len(built) = Len(df.rows)
    /\ \A r \in 1..Len(built) :
          built[r][AmountAt] =
            Num(IF {"Debit", "Credit"} \subseteq ResolvedNames
                THEN Worth(CellUnder("Debit", r)) - Worth(CellUnder("Credit", r))
                ELSE 0)

C15_Witness ==
  /\ flow = "csv"
  /\ pc = "ask_commit"
  /\ "Amount" \notin ResolvedNames
  /\ {"Debit", "Credit"} \subseteq ResolvedNames
  /\ \E r \in 1..Len(built) :
        CellUnder("Debit", r).k = "str" /\ built[r][AmountAt] = Num(0)
  /\ \E r \in 1..Len(built) : built[r][AmountAt] = Num(-1)

\* The lines of the file of the run whose direct amount is text that is no
\* number.
UnparseableAmounts ==
  {r \in 1..Len(df.rows) :
     \E i \in 1..Len(df.cols) :
        df.cols[i] = "Amount" /\ df.rows[r][i].k = "str" /\ df.rows[r][i].s = <<"x">>}

\* C16: a line whose direct amount cannot be parsed does not end the run:
\* the batch is built with every line of the file in it, the amount of
\* that line is 0, and the run is at the sign question or the commit
\* confirmation, or past them.
C16_UnparseableAmountRecovered ==
  (UnparseableAmounts # {} /\ pc # "idle") =>
    /\ ~RunFailed
    /\ Len(built) = Len(df.rows)
    /\ \A r \in UnparseableAmounts : built[r][AmountAt] = Num(0)

\* How many times pd.read_csv was called with the fallback encoding.
Rereads == Cardinality({i \in 1..Len(trace) : trace[i] = "reread"})

\* C17: a CSV run reads its file once and, only when that read fails, once
\* more with the fallback encoding.  When the second read fails too the run
\* is over: it has asked for no column, no sign flip and no commit, the
\* ledger is as it was, and no exception has left process_csv_file.
C17_OneRetryThenGiveUp ==
  (flow \in {"csv", "csv9"} /\ pc # "idle") =>
    /\ trace[1] = "read"
    /\ Rereads = (IF file_path.enc = "utf8" THEN 0 ELSE 1)
    /\ (file_path.enc # "utf8" => trace[2] = "reread")
    /\ (file_path.enc = "bad" =>
          /\ pc = "done"
          /\ trace = <<"read", "reread">>
          /\ colAnswer = <<>> /\ flipAnswer = <<>> /\ commitAnswer = <<>>
          /\ ledger = pre
          /\ outcome = "unread")

C17_Witness ==
  /\ flow = "csv"
  /\ file_path.enc = "bad"
  /\ pc = "done"
  /\ Rereads = 1

\* No record of the batch has a date, so there is no date range to make a
\* label of.
NoDateRange == \A r \in 1..Len(built) : built[r][DateAt].k # "str"

\* C18: an Excel run that gets to a prompt with no date range has as its
\* statement label the last 28 characters of the header cell when the cell
\* could be read and its text is at least 28 characters long, and the file
\* name without its extension otherwise.
C18_HeaderCellOrFileName ==
  (flow = "excel" /\ pc \in {"ask_flip", "ask_commit"} /\ NoDateRange) =>
    statement_string =
      IF file_path.b2.ok /\ Len(file_path.b2.text) >= 28
      THEN SubSeq(file_path.b2.text, Len(file_path.b2.text) - 27, Len(file_path.b2.text))
      ELSE file_path.stem

\* How many columns of the file of the run have the name c once the
\* resolver's mapping is applied.
ColumnsNamed(c) ==
  Cardinality({i \in 1..Len(df.cols) :
                 IF \E p \in column_mapping : p[1] = df.cols[i]
                 THEN (CHOOSE p \in column_mapping : p[1] = df.cols[i])[2] = c
                 ELSE df.cols[i] = c})

\* C19: once the resolver of a CSV run is through, Date and Description
\* are each the name of exactly one column, a column of the file or the
\* empty one made for a skip, and building the records does not fail for
\* a column that is not there.
C19_RequiredColumnsOnce ==
  (flow \in {"csv", "csv9"} /\ pc \notin {"idle", "ask_col"} /\ file_path.enc # "bad") =>
    /\ \A c \in {"Date", "Description"} :
          \/ ColumnsNamed(c) = 1
          \/ ColumnsNamed(c) = 0 /\ c \in Range(missing_cols)
    /\ "raise_select" \notin Range(trace)

\* A keyword one of whose "&"-separated parts is empty once trimmed.
HasBlankPart(keyword) ==
  \E j \in 1..Len(Split(keyword, "&")) : Strip(Split(keyword, "&")[j]) = <<>>

\* C20: an empty part of a keyword is found in every description.  A call
\* on a description that has the other parts of such a rule (none, for the
\* keywords "" and " ") returns that rule or one before it in the table,
\* never a later rule, the unclassified triple or an exception.
C20_BlankKeywordMatchesAll ==
  (callDesc # NaN /\ rulesFile.exists) =>
    \A i \in 1..Len(rulesFile.rows) :
       (HasBlankPart(rulesFile.rows[i].keyword) /\ FullyMatches(rulesFile.rows[i], callDesc))
         => /\ ~callResult.raised
            /\ \E j \in 1..i : callResult.vendor = rulesFile.rows[j].vendor

\* The table in memory t is the rule file rf as a first use takes it: its
\* lines in their order with the keywords in lower case (a missing keyword
\* stays missing), and no line at all when the file is not there.
TakenFrom(t, rf) ==
  IF ~rf.exists THEN t = <<>>
  ELSE /\ Len(t) = Len(rf.rows)
       /\ \A i \in 1..Len(t) :
            /\ t[i].vendor = rf.rows[i].vendor
            /\ t[i].category = rf.rows[i].category
            /\ t[i].tag = rf.rows[i].tag
            /\ IF rf.rows[i].keyword = <<>> THEN t[i].keyword = NaN
               ELSE /\ SameUpToCase(t[i].keyword, rf.rows[i].keyword)
                    /\ \A k \in 1..Len(t[i].keyword) : t[i].keyword[k] \notin {"A", "B"}

\* The step ends the process: the next run starts with nothing in memory.
ProcessEnds == pc = "done" /\ pc' = "idle" /\ vendor_rules_df' = NotLoaded

\* C21: the rule table is set up at most once in a process.  The step that
\* sets it up takes it from the rule file as the file is then, or takes the
\* empty table when the file is not there; from then on no step of the
\* process changes the table, whatever becomes of the file, and every
\* batch is classified by the table in memory.
C21_RulesLoadedOnce ==
  [][/\ (vendor_rules_df.loaded => (vendor_rules_df' = vendor_rules_df \/ ProcessEnds))
     /\ ((~vendor_rules_df.loaded /\ vendor_rules_df'.loaded)
           => TakenFrom(vendor_rules_df'.rows, rulesFile))
     /\ ((pc # "ask_commit" /\ pc' = "ask_commit") =>
           \A r \in 1..Len(new_df') :
              LET m == FirstMatch(new_df'[r][DescAt].s, vendor_rules_df'.rows)
              IN IF m.vendor = Empty THEN Blank(new_df'[r][VendorAt])
                 ELSE new_df'[r][VendorAt] = Str(m.vendor))]_vars

\* A batch that has the vendor of a rule file that is no longer there.
C21_Witness ==
  /\ flow = "csv"
  /\ pc = "ask_commit"
  /\ ~rulesFile.exists
  /\ vendor_rules_df.loaded
  /\ Len(new_df) = 1
  /\ new_df[1][VendorAt] = Str(<<"V1">>)

====
